---- MODULE Spec2Model ----
(***************************************************************************)
(* Lifecycle handlers of the azurerm storage account and snapshot          *)
(* resources (resource_arm_storage_account.go, resource_arm_snapshot.go).  *)
(*                                                                         *)
(* One resource instance is managed.  The handlers are modelled step by    *)
(* step at the places where they call the remote client, so that the order *)
(* of remote calls, identifier writes and returns is visible.  The remote  *)
(* client is a nondeterministic fake: every call draws its outcome from    *)
(* the outcomes the control plane can produce.  The document keeps the     *)
(* identifier and the fields Read reflects from one handler to the next.   *)
(*                                                                         *)
(* Spec is the lifecycle.  SpecFunctions applies the name validators and   *)
(* the request building of Create, with the sku reflection of Read, to     *)
(* documents drawn from wider sets.                                        *)
(*                                                                         *)
(* Strings whose letters matter (kind, tier, replication type, SKU name)   *)
(* are sequences of one-character strings.                                 *)
(***************************************************************************)
EXTENDS Integers, Sequences, FiniteSets, TLC

----------------------------------------------------------------------------
(* Strings *)

Upper == <<"A","B","C","D","E","F","G","H","I","J","K","L","M",
           "N","O","P","Q","R","S","T","U","V","W","X","Y","Z">>
Lower == <<"a","b","c","d","e","f","g","h","i","j","k","l","m",
           "n","o","p","q","r","s","t","u","v","w","x","y","z">>

LowerChar(c) ==
    IF \E i \in DOMAIN Upper : Upper[i] = c
    THEN Lower[CHOOSE i \in DOMAIN Upper : Upper[i] = c]
    ELSE c

\* strings.ToLower
ToLower(s) == [i \in DOMAIN s |-> LowerChar(s[i])]

S_Storage     == <<"S","t","o","r","a","g","e">>
S_BlobStorage == <<"B","l","o","b","S","t","o","r","a","g","e">>
S_blobstorage == <<"b","l","o","b","s","t","o","r","a","g","e">>
S_Standard    == <<"S","t","a","n","d","a","r","d">>
S_Premium     == <<"P","r","e","m","i","u","m">>
S_LRS         == <<"L","R","S">>
S_ZRS         == <<"Z","R","S">>
S_zrs         == <<"z","r","s">>
S_GRS         == <<"G","R","S">>
S_RAGRS       == <<"R","A","G","R","S">>
S_Hot         == <<"H","o","t">>
S_Cool        == <<"C","o","o","l">>
S_Empty       == <<>>

\* storage.StandardZRS of the SDK, the SKU name "Standard_ZRS"
StandardZRS == S_Standard \o <<"_">> \o S_ZRS

\* const blobStorageAccountDefaultAccessTier = "Hot"
blobStorageAccountDefaultAccessTier == S_Hot

\* validation.StringInSlice(valid, ignoreCase)
StringInSlice(valid, ignoreCase, v) ==
    \E s \in valid : v = s \/ (ignoreCase /\ ToLower(v) = ToLower(s))

\* schema of "account_kind", "account_tier", "account_replication_type", "access_tier"
ValidAccountKind(v) == StringInSlice({S_Storage, S_BlobStorage}, TRUE, v)
ValidAccountTier(v) == StringInSlice({S_Standard, S_Premium}, TRUE, v)
ValidReplicationType(v) == StringInSlice({S_LRS, S_ZRS, S_GRS, S_RAGRS}, TRUE, v)
ValidAccessTier(v) == StringInSlice({S_Cool, S_Hot}, TRUE, v)

\* fmt.Sprintf("%s_%s", accountTier, replicationType)
StorageType(accountTier, replicationType) == accountTier \o <<"_">> \o replicationType

----------------------------------------------------------------------------
(* Identifiers *)

\* d.Id() of a document that has no identifier
NoId == <<>>

Names  == {"acct1", "acct2"}
DocNames == {"acct1"}
Groups == {"rg1"}

\* PathKey with the keys of the two resource kinds swapped
PathKey_Swapped(rt) == IF rt = "storage" THEN "snapshots" ELSE "storageAccounts"

\* the key under which the handlers of each resource kind look the name up in
\* the parsed identifier: id.Path["storageAccounts"], id.Path["snapshots"]
PathKey(rt) == IF rt = "storage" THEN "storageAccounts" ELSE "snapshots"

\* the identifier the control plane reports for the resource at (rg, name),
\* as the list of its "/"-separated segments
RemoteId(rt, rg, name) ==
    IF rt = "storage"
    THEN <<"subscriptions", "sub", "resourceGroups", rg,
           "providers", "Microsoft.Storage", "storageAccounts", name>>
    ELSE <<"subscriptions", "sub", "resourceGroups", rg,
           "providers", "Microsoft.Compute", "snapshots", name>>

IsOdd(i) == i % 2 = 1

\* parseAzureResourceID: the identifier is a list of key/value segment pairs that
\* names a subscription and a resource group
ParseOk(idv) ==
    /\ Len(idv) > 0
    /\ Len(idv) % 2 = 0
    /\ \E i \in DOMAIN idv : IsOdd(i) /\ idv[i] = "subscriptions"
    /\ \E i \in DOMAIN idv : IsOdd(i) /\ idv[i] = "resourceGroups"

\* the value that follows key in the identifier, "" when the key is missing
\* (id.ResourceGroup, id.Path[key])
IdValue(idv, key) ==
    IF \E i \in DOMAIN idv : IsOdd(i) /\ idv[i] = key /\ i + 1 \in DOMAIN idv
    THEN idv[(CHOOSE i \in DOMAIN idv : IsOdd(i) /\ idv[i] = key /\ i + 1 \in DOMAIN idv) + 1]
    ELSE ""

IdResourceGroup(idv) == IdValue(idv, "resourceGroups")
IdName(rt, idv) == IdValue(idv, PathKey(rt))

\* an identifier that parseAzureResourceID rejects
MalformedId == <<"subscriptions", "sub", "resourceGroups">>

----------------------------------------------------------------------------
(* The reflected document and the remote representation *)

\* strings.Split(s, sep) on a sequence of characters
RECURSIVE Split(_, _)
Split(s, sep) ==
    IF \A i \in DOMAIN s : s[i] # sep
    THEN <<s>>
    ELSE LET k == CHOOSE i \in DOMAIN s :
                      s[i] = sep /\ \A j \in 1..(i - 1) : s[j] # sep
         IN  <<SubSeq(s, 1, k - 1)>> \o Split(SubSeq(s, k + 1, Len(s)), sep)

\* the sku a storage account reports for the combined name it was given: the name
\* and the tier that name starts with
RemoteSku(skuName) == [name |-> skuName, tier |-> Split(skuName, "_")[1]]

\* props.SecondaryEndpoints of a representation: the group may be missing, and
\* each endpoint of a group that is there may be missing.  The queue and the
\* table endpoint are drawn together, the blob endpoint on its own.
NoEndpoints == [present |-> FALSE, blob |-> FALSE, queue |-> FALSE, table |-> FALSE]
SecondaryInputs ==
    {NoEndpoints} \cup
    {e \in [present : {TRUE}, blob : BOOLEAN, queue : BOOLEAN, table : BOOLEAN] :
         e.queue = e.table}

\* the representation Get answers for an account that was given the document's sku
Representations(c) ==
    [sku : {RemoteSku(StorageType(c.account_tier, c.account_replication_type))},
     secondary : SecondaryInputs]

\* the secrets ListKeys answers, in order
KeyValues == <<"key1", "key2", "key3", "key4">>
AccessKeys(n) == SubSeq(KeyValues, 1, n)

\* the endpoint addresses of an account
SecondaryBlobEndpoint == "https://secondary.blob"
SecondaryQueueEndpoint == "https://secondary.queue"
SecondaryTableEndpoint == "https://secondary.table"

\* lines 523, 531: the connection string Sprintf builds; NoConnectionString is ""
ConnectionString(endpoint, name, key) ==
    <<"BlobEndpoint", endpoint, "AccountName", name, "AccountKey", key>>
NoConnectionString == <<>>

\* the reflected fields of a document no Read has written
NoDoc ==
    [account_tier |-> S_Empty, account_replication_type |-> S_Empty,
     secondary_blob_endpoint |-> "", secondary_blob_connection_string |-> NoConnectionString,
     secondary_queue_endpoint |-> "", secondary_table_endpoint |-> "",
     primary_access_key |-> "", secondary_access_key |-> ""]

NoSeen == [got |-> FALSE, secondary |-> NoEndpoints, keys |-> 0]

----------------------------------------------------------------------------
(* Bounds *)

\* the poller's deadline, in poll intervals
TimeoutTicks == 3

\* the longest secret list ListKeys returns
MaxKeys == 2

----------------------------------------------------------------------------
(* State *)

VARIABLES
    rtype,      \* which resource kind the instance is: "storage" or "snapshot"
    cfg,        \* the declared document: name, resource group, kind, tier, ...
    id,         \* d.Id(), the identifier recorded in the document
    op,         \* the handler that is running or has last run
    pc,         \* the handler's position
    calls,      \* the remote calls the running handler has issued, in order
    ret,        \* what the handler returned
    createErr,  \* Create: the error of the remote Create call
    readRes,    \* Create: the result of the Get after Create
    observed,   \* Create: the provisioning states the poller has seen
    changed,    \* Update: the fields d.HasChange reports
    partial,    \* d.Partial mode and the keys given to d.SetPartial
    lastCreate, \* the coordinates and identifier of a Create that failed with the
                \* identifier recovered, while the document still holds that identifier
    lastDelete, \* the identifier on which the last Delete removed the resource
    doc,        \* the fields of the document that Read reflects from the remote
    seen        \* Read: the representation and the secret list it was answered

vars == <<rtype, cfg, id, op, pc, calls, ret, createErr, readRes,
          observed, changed, partial, lastCreate, lastDelete, doc, seen>>

Ret(status, what) == [status |-> status, what |-> what]
NoRet == Ret("none", "")
RetOk == Ret("ok", "")

\* a remote call: the client method, the source line that issues it, the
\* coordinates it addresses, its request (Create, Update) and its answer
Call(o, line, rg, name, req, out) ==
    [op |-> o, line |-> line, rg |-> rg, name |-> name, req |-> req, out |-> out]

NoRead == [err |-> FALSE, notFound |-> FALSE, id |-> NoId]
NoPartial == [on |-> FALSE, keys |-> {}]
NoCreate == [rg |-> "", name |-> "", id |-> NoId]

\* the documents the schema accepts
KindInputs == {v \in {S_Storage, S_BlobStorage} : ValidAccountKind(v)}
TierInputs == {v \in {S_Standard, S_Premium} : ValidAccountTier(v)}
ReplicationInputs == {v \in {S_LRS, S_ZRS, S_zrs} : ValidReplicationType(v)}
AccessTierInputs == {S_Empty} \cup {v \in {S_Cool} : ValidAccessTier(v)}
CustomDomainInputs == {<<>>, <<"example.com">>}

StorageConfigs ==
    [name : DocNames, resource_group_name : Groups,
     account_kind : KindInputs, account_tier : TierInputs,
     account_replication_type : ReplicationInputs,
     access_tier : AccessTierInputs, custom_domain : CustomDomainInputs]

SnapshotConfigs ==
    [name : DocNames, resource_group_name : Groups,
     account_kind : {S_Empty}, account_tier : {S_Empty},
     account_replication_type : {S_Empty},
     access_tier : {S_Empty}, custom_domain : {<<>>}]

Init ==
    /\ rtype \in {"storage", "snapshot"}
    /\ cfg \in (IF rtype = "storage" THEN StorageConfigs ELSE SnapshotConfigs)
    /\ id = NoId
    /\ op = "none"
    /\ pc = "idle"
    /\ calls = <<>>
    /\ ret = NoRet
    /\ createErr = FALSE
    /\ readRes = NoRead
    /\ observed = <<>>
    /\ changed = {}
    /\ partial = NoPartial
    /\ lastCreate = NoCreate
    /\ lastDelete = NoId
    /\ doc = NoDoc
    /\ seen = NoSeen

----------------------------------------------------------------------------
(* The remote client *)

\* what Get can answer for a name: the resource with its identifier ("ok"), the
\* resource without an identifier ("noid"), not found, or another failure
GetOutcomes == {"ok", "noid", "notfound", "error"}

\* the result of Get as the handlers see it: err, notFound and the ID pointer
GetResult(out, rt, rg, name) ==
    [err |-> out \in {"notfound", "error"},
     notFound |-> out = "notfound",
     id |-> IF out = "ok" THEN RemoteId(rt, rg, name) ELSE NoId]

\* what Delete can answer: done, not found, or another failure
DeleteOutcomes == {"ok", "notfound", "error"}

\* what ListKeys can answer: a failure, or a list of n secrets
KeysOutcomes ==
    {[err |-> TRUE, n |-> 0]} \cup {[err |-> FALSE, n |-> k] : k \in 0..MaxKeys}

\* the remote Create call reports success or an error; a failed call may still
\* have allocated the resource, which the Get after it then finds
CreateOutcomes == {"ok", "error"}

----------------------------------------------------------------------------
(* Storage account: Read *)

\* StorageAccountReflect that takes the first piece of the split sku name
StorageAccountReflect_FirstPiece(prior, rep, n, name) ==
    [prior EXCEPT !.account_tier = rep.sku.tier,
                  !.account_replication_type = Split(rep.sku.name, "_")[1]]

\* lines 480-554: what Read writes into the document prior for representation rep
\* of account name and n secrets, when no index is out of range
StorageAccountReflect(prior, rep, n, name) ==
    LET keys == AccessKeys(n)
        sec == rep.secondary
    IN  [account_tier |-> rep.sku.tier,
         account_replication_type |-> Split(rep.sku.name, "_")[2],
         secondary_blob_endpoint |->
             IF ~sec.present THEN prior.secondary_blob_endpoint
             ELSE IF sec.blob THEN SecondaryBlobEndpoint ELSE "",
         secondary_blob_connection_string |->
             IF ~sec.present THEN prior.secondary_blob_connection_string
             ELSE IF sec.blob
                  THEN ConnectionString(SecondaryBlobEndpoint, name, keys[2])
                  ELSE NoConnectionString,
         secondary_queue_endpoint |->
             IF ~sec.present THEN prior.secondary_queue_endpoint
             ELSE IF sec.queue THEN SecondaryQueueEndpoint ELSE "",
         secondary_table_endpoint |->
             IF ~sec.present THEN prior.secondary_table_endpoint
             ELSE IF sec.table THEN SecondaryTableEndpoint ELSE "",
         primary_access_key |-> keys[1],
         secondary_access_key |-> keys[2]]

\* the document after a Read that returned r: a cleared identifier drops the
\* document's state, a Read that returned nil has written the reflection
DocAfterRead(r, prior, rep, n) ==
    IF r.id = NoId THEN NoDoc
    ELSE IF r.ret = RetOk THEN StorageAccountReflect(prior, rep, n, IdName("storage", r.id))
    ELSE prior

\* the answers a Read that got as far as the reflection was given
SeenByRead(r, rep, n) ==
    IF r.ret.status \in {"ok", "panic"} /\ r.id # NoId
    THEN [got |-> TRUE, secondary |-> rep.secondary, keys |-> n]
    ELSE NoSeen

\* StorageAccountRead that treats every failure of GetProperties as not found
StorageAccountRead_AnyErrorClears(idv, getOut, keysOut) ==
    LET name == IdName("storage", idv)
        resGroup == IdResourceGroup(idv)
        resp == GetResult(getOut, "storage", resGroup, name)
        get == Call("Get", 466, resGroup, name, "", getOut)
        list == Call("ListKeys", 475, resGroup, name, "",
                     IF keysOut.err THEN "error" ELSE "ok")
    IN  IF ~ParseOk(idv)
        THEN [id |-> idv, ret |-> Ret("error", "parse"), calls |-> <<>>]
        ELSE IF resp.err
        THEN [id |-> NoId, ret |-> RetOk, calls |-> <<get>>]
        ELSE IF keysOut.err
        THEN [id |-> idv, ret |-> Ret("error", "keys"), calls |-> <<get, list>>]
        ELSE IF keysOut.n < 2
        THEN [id |-> idv, ret |-> Ret("panic", "accessKeys"), calls |-> <<get, list>>]
        ELSE [id |-> idv, ret |-> RetOk, calls |-> <<get, list>>]

\* StorageAccountRead that reports a missing account as a read error and keeps the
\* identifier
StorageAccountRead_NotFoundIsError(idv, getOut, keysOut) ==
    LET name == IdName("storage", idv)
        resGroup == IdResourceGroup(idv)
        resp == GetResult(getOut, "storage", resGroup, name)
        get == Call("Get", 466, resGroup, name, "", getOut)
        list == Call("ListKeys", 475, resGroup, name, "",
                     IF keysOut.err THEN "error" ELSE "ok")
    IN  IF ~ParseOk(idv)
        THEN [id |-> idv, ret |-> Ret("error", "parse"), calls |-> <<>>]
        ELSE IF resp.err
        THEN [id |-> idv, ret |-> Ret("error", "read"), calls |-> <<get>>]
        ELSE IF keysOut.err
        THEN [id |-> idv, ret |-> Ret("error", "keys"), calls |-> <<get, list>>]
        ELSE IF keysOut.n < 2
        THEN [id |-> idv, ret |-> Ret("panic", "accessKeys"), calls |-> <<get, list>>]
        ELSE [id |-> idv, ret |-> RetOk, calls |-> <<get, list>>]

\* resourceArmStorageAccountRead on identifier idv, with the answers of
\* GetProperties and ListKeys: the identifier afterward, the return value and the
\* remote calls issued
StorageAccountRead(idv, getOut, keysOut) ==
    LET name == IdName("storage", idv)
        resGroup == IdResourceGroup(idv)
        resp == GetResult(getOut, "storage", resGroup, name)
        get == Call("Get", 466, resGroup, name, "", getOut)
        list == Call("ListKeys", 475, resGroup, name, "",
                     IF keysOut.err THEN "error" ELSE "ok")
    IN  IF ~ParseOk(idv)
        THEN [id |-> idv, ret |-> Ret("error", "parse"), calls |-> <<>>]
        ELSE IF resp.err /\ resp.notFound
        THEN [id |-> NoId, ret |-> RetOk, calls |-> <<get>>]
        ELSE IF resp.err
        THEN [id |-> idv, ret |-> Ret("error", "read"), calls |-> <<get>>]
        ELSE IF keysOut.err
        THEN [id |-> idv, ret |-> Ret("error", "keys"), calls |-> <<get, list>>]
        ELSE IF keysOut.n < 2
        THEN [id |-> idv, ret |-> Ret("panic", "accessKeys"), calls |-> <<get, list>>]
        ELSE [id |-> idv, ret |-> RetOk, calls |-> <<get, list>>]

----------------------------------------------------------------------------
(* Storage account: Create *)

\* d.GetOk: the field has a non-zero value
GetOk(v) == v # S_Empty

\* the cross-field check of Create and Update
BlobStorageZRSRejected(accountKind, storageType) ==
    accountKind = S_BlobStorage /\ storageType = StandardZRS

\* CreateParameters that sends no access tier when the document has none
CreateParameters_NoDefault(c) ==
    [sku |-> StorageType(c.account_tier, c.account_replication_type),
     kind |-> c.account_kind,
     customDomain |-> c.custom_domain,
     accessTier |-> IF c.account_kind = S_BlobStorage THEN c.access_tier ELSE S_Empty]

\* storage.AccountCreateParameters, the parts that depend on the document
CreateParameters(c) ==
    [sku |-> StorageType(c.account_tier, c.account_replication_type),
     kind |-> c.account_kind,
     customDomain |-> c.custom_domain,
     accessTier |->
        IF c.account_kind = S_BlobStorage
        THEN (IF GetOk(c.access_tier) THEN c.access_tier
              ELSE blobStorageAccountDefaultAccessTier)
        ELSE S_Empty]

\* IdAfterGet with the SetId forgotten
IdAfterGet_NoSetId(read, cur) == cur

\* "Set the ID right away if we have one"
IdAfterGet(read, cur) ==
    IF ~read.err /\ read.id # NoId THEN read.id ELSE cur

\* CreateVerdict that goes on to poll without an identifier
CreateVerdict_PollWithoutId(cErr, read) ==
    IF cErr THEN Ret("error", "create")
    ELSE IF read.err THEN Ret("error", "get")
    ELSE Ret("wait", "")

\* what Create returns once the Get after Create has answered, "wait" when it
\* goes on to poll
CreateVerdict(cErr, read) ==
    IF cErr THEN Ret("error", "create")
    ELSE IF read.err THEN Ret("error", "get")
    ELSE IF read.id = NoId THEN Ret("error", "noid")
    ELSE Ret("wait", "")

\* Pending with the failure state taken for an intermediate one
Pending_WithFailed == {"Updating", "Creating", "Failed"}

\* Target with the failure state taken for the state waited for
Target_WithFailed == {"Succeeded", "Failed"}

\* stateConf.Pending and stateConf.Target
Pending == {"Updating", "Creating"}
Target == {"Succeeded"}

\* the provisioning states the control plane reports
ProvisioningStates == {"Creating", "Updating", "Succeeded", "Failed", "Canceled"}

\* DeadlinePassed with no deadline set
DeadlinePassed_Never(n) == FALSE

\* Timeout: the deadline has passed once the poller has waited n poll intervals
DeadlinePassed(n) == n >= TimeoutTicks

\* WaitForState on one refreshed state
WaitDecision(state) ==
    IF state \in Target THEN "done"
    ELSE IF state \in Pending THEN "again"
    ELSE "unexpected"

\* lines 208-271: build the request, validate, issue the remote Create
resourceArmStorageAccountCreate ==
    /\ pc = "idle" /\ rtype = "storage" /\ id = NoId
    /\ op' = "Create"
    /\ IF BlobStorageZRSRejected(cfg.account_kind,
              StorageType(cfg.account_tier, cfg.account_replication_type))
       THEN /\ ret' = Ret("error", "validation")
            /\ pc' = "done"
            /\ UNCHANGED <<calls, createErr>>
       ELSE \E out \in CreateOutcomes :
            /\ calls' = <<Call("Create", 270, cfg.resource_group_name, cfg.name,
                               CreateParameters(cfg), out)>>
            /\ createErr' = (out = "error")
            /\ pc' = "c_get"
            /\ ret' = NoRet
    /\ UNCHANGED <<rtype, cfg, id, readRes, observed, changed, partial, lastCreate, lastDelete, doc, seen>>

\* lines 273-280: the Get after Create, and SetId
StorageAccountCreateGet ==
    /\ pc = "c_get"
    /\ \E out \in GetOutcomes :
        LET read == GetResult(out, "storage", cfg.resource_group_name, cfg.name)
        IN  /\ readRes' = read
            /\ id' = IdAfterGet(read, id)
            /\ calls' = Append(calls, Call("Get", 274, cfg.resource_group_name,
                                           cfg.name, "", out))
    /\ pc' = "c_check"
    /\ UNCHANGED <<rtype, cfg, op, ret, createErr, observed, changed,
                   partial, lastCreate, lastDelete, doc, seen>>

\* lines 282-299: the create error, the read error, the missing ID
StorageAccountCreateCheck ==
    /\ pc = "c_check"
    /\ LET v == CreateVerdict(createErr, readRes)
       IN  IF v.status = "wait"
           THEN /\ pc' = "c_wait"
                /\ ret' = ret
           ELSE /\ pc' = "done"
                /\ ret' = v
    /\ UNCHANGED <<rtype, cfg, id, op, calls, createErr, readRes,
                   observed, changed, partial, lastCreate, lastDelete, doc, seen>>

\* lines 301-311 and storageAccountStateRefreshFunc: one tick of WaitForState
StorageAccountCreateWait ==
    /\ pc = "c_wait"
    /\ IF DeadlinePassed(Len(observed))
       THEN /\ ret' = Ret("error", "wait_timeout")
            /\ pc' = "done"
            /\ UNCHANGED <<calls, observed>>
       ELSE \E out \in {"error"} \cup ProvisioningStates :
                /\ calls' = Append(calls, Call("Get", 627, cfg.resource_group_name,
                                               cfg.name, "", out))
                /\ IF out = "error"
                   THEN /\ ret' = Ret("error", "wait_refresh")
                        /\ pc' = "done"
                        /\ observed' = observed
                   ELSE /\ observed' = Append(observed, out)
                        /\ CASE WaitDecision(out) = "done" ->
                                   /\ pc' = "c_read"
                                   /\ ret' = ret
                             [] WaitDecision(out) = "again" ->
                                   /\ pc' = "c_wait"
                                   /\ ret' = ret
                             [] OTHER ->
                                   /\ pc' = "done"
                                   /\ ret' = Ret("error", "wait_state")
    /\ UNCHANGED <<rtype, cfg, id, op, createErr, readRes, changed,
                   partial, lastCreate, lastDelete, doc, seen>>

\* line 313: return resourceArmStorageAccountRead(d, meta)
StorageAccountCreateRead ==
    /\ pc = "c_read"
    /\ \E getOut \in GetOutcomes, keysOut \in KeysOutcomes :
        \E rep \in Representations(cfg) :
        LET r == StorageAccountRead(id, getOut, keysOut)
        IN  /\ id' = r.id
            /\ ret' = r.ret
            /\ calls' = calls \o r.calls
            /\ doc' = DocAfterRead(r, doc, rep, keysOut.n)
            /\ seen' = SeenByRead(r, rep, keysOut.n)
    /\ pc' = "done"
    /\ UNCHANGED <<rtype, cfg, op, createErr, readRes, observed, changed,
                   partial, lastCreate, lastDelete>>

----------------------------------------------------------------------------
(* Storage account: Read and Delete as handlers of their own *)

resourceArmStorageAccountRead ==
    /\ pc = "idle" /\ rtype = "storage" /\ id # NoId
    /\ op' = "Read"
    /\ \E getOut \in GetOutcomes, keysOut \in KeysOutcomes :
        \E rep \in Representations(cfg) :
        LET r == StorageAccountRead(id, getOut, keysOut)
        IN  /\ id' = r.id
            /\ ret' = r.ret
            /\ calls' = r.calls
            /\ doc' = DocAfterRead(r, doc, rep, keysOut.n)
            /\ seen' = SeenByRead(r, rep, keysOut.n)
    /\ pc' = "done"
    /\ UNCHANGED <<rtype, cfg, createErr, readRes, observed, changed,
                   partial, lastCreate, lastDelete>>

\* what resourceArmStorageAccountDelete returns for the answer of client.Delete
StorageAccountDeleteVerdict(out) ==
    IF out # "ok" THEN Ret("error", "delete") ELSE RetOk

resourceArmStorageAccountDelete ==
    /\ pc = "idle" /\ rtype = "storage" /\ id # NoId
    /\ op' = "Delete"
    /\ IF ~ParseOk(id)
       THEN /\ ret' = Ret("error", "parse")
            /\ calls' = calls
       ELSE LET name == IdName("storage", id)
                resGroup == IdResourceGroup(id)
            IN  \E out \in DeleteOutcomes :
                /\ calls' = <<Call("Delete", 571, resGroup, name, "", out)>>
                /\ ret' = StorageAccountDeleteVerdict(out)
    /\ pc' = "done"
    /\ UNCHANGED <<rtype, cfg, id, createErr, readRes, observed, changed,
                   partial, lastCreate, lastDelete, doc, seen>>

----------------------------------------------------------------------------
(* Storage account: Update *)

UpdateFields ==
    {"account_replication_type", "access_tier", "tags", "enable_blob_encryption",
     "enable_file_encryption", "custom_domain", "enable_https_traffic_only"}

\* d.HasChange
HasChange(f) == f \in changed

UpdateOutcomes == {"ok", "error"}

\* lines 319-339: parse the identifier, validate, d.Partial(true)
resourceArmStorageAccountUpdate ==
    /\ pc = "idle" /\ rtype = "storage" /\ id # NoId
    /\ op' = "Update"
    /\ \E ch \in SUBSET UpdateFields : changed' = ch
    /\ calls' = <<>>
    /\ IF ~ParseOk(id)
       THEN /\ ret' = Ret("error", "parse")
            /\ pc' = "done"
            /\ partial' = partial
       ELSE IF BlobStorageZRSRejected(cfg.account_kind,
                  StorageType(cfg.account_tier, cfg.account_replication_type))
       THEN /\ ret' = Ret("error", "validation")
            /\ pc' = "done"
            /\ partial' = partial
       ELSE /\ ret' = NoRet
            /\ pc' = "u_sku"
            /\ partial' = [partial EXCEPT !.on = TRUE]
    /\ UNCHANGED <<rtype, cfg, id, createErr, readRes, observed, lastCreate, lastDelete, doc, seen>>

\* one "if d.HasChange(...) { client.Update(...) }" block of Update.
\*   line:      the source line of the block's client.Update call
\*   trigger:   the fields whose change makes the block run
\*   before:    the fields given to d.SetPartial before the remote call
\*   after:     the fields given to d.SetPartial after the call succeeded
\*   buildable: the block builds its request without a fault
UpdateBlock(here, next, line, group, trigger, before, after, buildable) ==
    /\ pc = here
    /\ IF trigger \cap changed = {}
       THEN /\ pc' = next
            /\ UNCHANGED <<calls, ret, partial>>
       ELSE IF ~buildable
       THEN /\ pc' = "done"
            /\ ret' = Ret("panic", group)
            /\ UNCHANGED <<calls, partial>>
       ELSE \E out \in UpdateOutcomes :
            /\ calls' = Append(calls, Call("Update", line, IdResourceGroup(id),
                                           IdName("storage", id), group, out))
            /\ IF out = "error"
               THEN /\ pc' = "done"
                    /\ ret' = Ret("error", group)
                    /\ partial' = [partial EXCEPT !.keys = @ \cup (before \cap changed)]
               ELSE /\ pc' = next
                    /\ ret' = ret
                    /\ partial' = [partial EXCEPT
                                     !.keys = @ \cup (before \cap changed) \cup after]
    /\ UNCHANGED <<rtype, cfg, id, op, createErr, readRes, observed,
                   changed, lastCreate, lastDelete, doc, seen>>

\* lines 341-355
StorageAccountUpdateReplicationType ==
    UpdateBlock("u_sku", "u_tier", 349, "account_replication_type",
                {"account_replication_type"}, {}, {"account_replication_type"}, TRUE)

\* lines 357-372
StorageAccountUpdateAccessTier ==
    UpdateBlock("u_tier", "u_tags", 366, "access_tier",
                {"access_tier"}, {}, {"access_tier"}, TRUE)

\* lines 374-386
StorageAccountUpdateTags ==
    UpdateBlock("u_tags", "u_enc", 380, "tags", {"tags"}, {}, {"tags"}, TRUE)

\* lines 388-420: both flags are given to SetPartial before the call is issued
StorageAccountUpdateEncryption ==
    UpdateBlock("u_enc", "u_domain", 416, "encryption",
                {"enable_blob_encryption", "enable_file_encryption"},
                {"enable_blob_encryption", "enable_file_encryption"}, {}, TRUE)

\* expandStorageAccountCustomDomain reads domains[0]
CustomDomainExpandable(c) == Len(c.custom_domain) > 0

\* lines 422-434: no SetPartial
StorageAccountUpdateCustomDomain ==
    UpdateBlock("u_domain", "u_https", 430, "custom_domain",
                {"custom_domain"}, {}, {}, CustomDomainExpandable(cfg))

\* lines 436-450
StorageAccountUpdateHTTPSOnly ==
    UpdateBlock("u_https", "u_end", 444, "enable_https_traffic_only",
                {"enable_https_traffic_only"}, {}, {"enable_https_traffic_only"}, TRUE)

\* lines 452-453: d.Partial(false); return nil
StorageAccountUpdateEnd ==
    /\ pc = "u_end"
    /\ partial' = [partial EXCEPT !.on = FALSE]
    /\ ret' = RetOk
    /\ pc' = "done"
    /\ UNCHANGED <<rtype, cfg, id, op, calls, createErr, readRes,
                   observed, changed, lastCreate, lastDelete, doc, seen>>

----------------------------------------------------------------------------
(* Snapshot *)

\* SnapshotRead that clears the identifier on every failure of Get
SnapshotRead_ErrorClears(idv, getOut) ==
    LET name == IdName("snapshot", idv)
        resourceGroup == IdResourceGroup(idv)
        resp == GetResult(getOut, "snapshot", resourceGroup, name)
        get == Call("Get", 146, resourceGroup, name, "", getOut)
    IN  IF ~ParseOk(idv)
        THEN [id |-> idv, ret |-> Ret("error", "parse"), calls |-> <<>>]
        ELSE IF resp.err /\ resp.notFound
        THEN [id |-> NoId, ret |-> RetOk, calls |-> <<get>>]
        ELSE IF resp.err
        THEN [id |-> NoId, ret |-> Ret("error", "read"), calls |-> <<get>>]
        ELSE [id |-> idv, ret |-> RetOk, calls |-> <<get>>]

\* resourceArmSnapshotRead on identifier idv with the answer of Get
SnapshotRead(idv, getOut) ==
    LET name == IdName("snapshot", idv)
        resourceGroup == IdResourceGroup(idv)
        resp == GetResult(getOut, "snapshot", resourceGroup, name)
        get == Call("Get", 146, resourceGroup, name, "", getOut)
    IN  IF ~ParseOk(idv)
        THEN [id |-> idv, ret |-> Ret("error", "parse"), calls |-> <<>>]
        ELSE IF resp.err /\ resp.notFound
        THEN [id |-> NoId, ret |-> RetOk, calls |-> <<get>>]
        ELSE IF resp.err
        THEN [id |-> idv, ret |-> Ret("error", "read"), calls |-> <<get>>]
        ELSE [id |-> idv, ret |-> RetOk, calls |-> <<get>>]

\* lines 77-123: build the request, issue CreateOrUpdate, return its error
resourceArmSnapshotCreateUpdate ==
    /\ pc = "idle" /\ rtype = "snapshot"
    /\ op' = IF id = NoId THEN "Create" ELSE "Update"
    /\ \E out \in CreateOutcomes :
        /\ calls' = <<Call("Create", 119, cfg.resource_group_name, cfg.name, "", out)>>
        /\ createErr' = (out = "error")
        /\ IF out = "error"
           THEN /\ pc' = "done"
                /\ ret' = Ret("error", "create")
           ELSE /\ pc' = "s_get"
                /\ ret' = NoRet
    /\ UNCHANGED <<rtype, cfg, id, readRes, observed, changed, partial, lastCreate, lastDelete, doc, seen>>

\* lines 125-130: Get, return its error, d.SetId(*resp.ID)
SnapshotCreateUpdateGet ==
    /\ pc = "s_get"
    /\ \E out \in GetOutcomes :
        LET resp == GetResult(out, "snapshot", cfg.resource_group_name, cfg.name)
        IN  /\ readRes' = resp
            /\ calls' = Append(calls, Call("Get", 125, cfg.resource_group_name,
                                           cfg.name, "", out))
            /\ IF resp.err
               THEN /\ pc' = "done"
                    /\ ret' = Ret("error", "get")
                    /\ id' = id
               ELSE IF resp.id = NoId
               THEN /\ pc' = "done"
                    /\ ret' = Ret("panic", "resp.ID")
                    /\ id' = id
               ELSE /\ pc' = "s_read"
                    /\ ret' = ret
                    /\ id' = resp.id
    /\ UNCHANGED <<rtype, cfg, op, createErr, observed, changed, partial,
                   lastCreate, lastDelete, doc, seen>>

\* line 132: return resourceArmSnapshotRead(d, meta)
SnapshotCreateUpdateRead ==
    /\ pc = "s_read"
    /\ \E getOut \in GetOutcomes :
        LET r == SnapshotRead(id, getOut)
        IN  /\ id' = r.id
            /\ ret' = r.ret
            /\ calls' = calls \o r.calls
    /\ pc' = "done"
    /\ UNCHANGED <<rtype, cfg, op, createErr, readRes, observed, changed,
                   partial, lastCreate, lastDelete, doc, seen>>

resourceArmSnapshotRead ==
    /\ pc = "idle" /\ rtype = "snapshot" /\ id # NoId
    /\ op' = "Read"
    /\ \E getOut \in GetOutcomes :
        LET r == SnapshotRead(id, getOut)
        IN  /\ id' = r.id
            /\ ret' = r.ret
            /\ calls' = r.calls
    /\ pc' = "done"
    /\ UNCHANGED <<rtype, cfg, createErr, readRes, observed, changed,
                   partial, lastCreate, lastDelete, doc, seen>>

\* what resourceArmSnapshotDelete returns for the answer of client.Delete
SnapshotDeleteVerdict(out) ==
    IF out # "ok"
    THEN (IF out = "notfound" THEN RetOk ELSE Ret("error", "delete"))
    ELSE RetOk

resourceArmSnapshotDelete ==
    /\ pc = "idle" /\ rtype = "snapshot" /\ id # NoId
    /\ op' = "Delete"
    /\ IF ~ParseOk(id)
       THEN /\ ret' = Ret("error", "parse")
            /\ calls' = calls
       ELSE LET name == IdName("snapshot", id)
                resourceGroup == IdResourceGroup(id)
            IN  \E out \in DeleteOutcomes :
                /\ calls' = <<Call("Delete", 204, resourceGroup, name, "", out)>>
                /\ ret' = SnapshotDeleteVerdict(out)
    /\ pc' = "done"
    /\ UNCHANGED <<rtype, cfg, id, createErr, readRes, observed, changed,
                   partial, lastCreate, lastDelete, doc, seen>>

----------------------------------------------------------------------------
(* The framework around the handlers *)

\* the identifiers an import can bring: schema.ImportStatePassthrough records the
\* string it is given
ImportIds(rt) ==
    {RemoteId(rt, g, n) : g \in Groups, n \in Names} \cup {MalformedId}

ImportStatePassthrough ==
    /\ pc = "idle" /\ id = NoId
    /\ \E i \in ImportIds(rtype) : id' = i
    /\ UNCHANGED <<rtype, cfg, op, pc, calls, ret, createErr, readRes,
                   observed, changed, partial, lastCreate, lastDelete, doc, seen>>

\* the handler has returned: the next handler starts on a fresh ResourceData that
\* keeps the identifier
Return ==
    /\ pc = "done"
    /\ pc' = "idle"
    /\ lastCreate' =
         IF op = "Create" /\ rtype = "storage"
         THEN (IF ret = Ret("error", "create") /\ id # NoId
               THEN [rg |-> calls[1].rg, name |-> calls[1].name, id |-> id]
               ELSE NoCreate)
         ELSE IF id = NoId THEN NoCreate ELSE lastCreate
    /\ lastDelete' =
         IF op = "Delete" /\ calls # <<>> /\ calls[1].out = "ok" /\ ret = RetOk
         THEN id
         ELSE IF op = "Create" \/ id = NoId THEN NoId ELSE lastDelete
    /\ calls' = <<>>
    /\ ret' = NoRet
    /\ createErr' = FALSE
    /\ readRes' = NoRead
    /\ observed' = <<>>
    /\ changed' = {}
    /\ partial' = NoPartial
    /\ op' = "none"
    /\ seen' = NoSeen
    /\ UNCHANGED <<rtype, cfg, id, doc>>

Next ==
    \/ resourceArmStorageAccountCreate
    \/ StorageAccountCreateGet
    \/ StorageAccountCreateCheck
    \/ StorageAccountCreateWait
    \/ StorageAccountCreateRead
    \/ resourceArmStorageAccountRead
    \/ resourceArmStorageAccountDelete
    \/ resourceArmStorageAccountUpdate
    \/ StorageAccountUpdateReplicationType
    \/ StorageAccountUpdateAccessTier
    \/ StorageAccountUpdateTags
    \/ StorageAccountUpdateEncryption
    \/ StorageAccountUpdateCustomDomain
    \/ StorageAccountUpdateHTTPSOnly
    \/ StorageAccountUpdateEnd
    \/ resourceArmSnapshotCreateUpdate
    \/ SnapshotCreateUpdateGet
    \/ SnapshotCreateUpdateRead
    \/ resourceArmSnapshotRead
    \/ resourceArmSnapshotDelete
    \/ ImportStatePassthrough
    \/ Return

Spec == Init /\ [][Next]_vars

----------------------------------------------------------------------------
(* Properties *)

StorageCreate == rtype = "storage" /\ op = "Create"

\* the remote Create failed and the Get after it answered with an identifier
CreateFailedIdFound ==
    /\ StorageCreate
    /\ pc \in {"c_check", "c_wait", "c_read", "done"}
    /\ createErr
    /\ ~readRes.err /\ readRes.id # NoId

\* C1: in storage-account Create, when the remote Create call fails but the Get
\* after it succeeds with a non-empty identifier, the identifier is in the
\* document before Create returns (already at the check of the create error),
\* Create goes on neither to polling nor to Read, and it returns the Create
\* error with the identifier still set.
C1_CreateErrorAfterIdRecorded ==
    CreateFailedIdFound =>
        /\ id = readRes.id
        /\ id # NoId
        /\ pc \in {"c_check", "done"}
        /\ pc = "done" => ret = Ret("error", "create")

C1_Witness ==
    /\ CreateFailedIdFound
    /\ pc = "done"
    /\ ret = Ret("error", "create")
    /\ id = RemoteId("storage", cfg.resource_group_name, cfg.name)

\* a create path has issued its remote create call and has returned
CreatePathReturned ==
    /\ pc = "done"
    /\ calls # <<>>
    /\ calls[1].op = "Create"

\* C2: in every create path (storage-account Create, snapshot CreateOrUpdate),
\* once the remote create call has been issued, a Get for the same coordinates
\* is issued right after it, whether the create call succeeded or failed.
C2_GetFollowsEveryCreate ==
    CreatePathReturned =>
        /\ Len(calls) >= 2
        /\ calls[2].op = "Get"
        /\ calls[2].rg = calls[1].rg
        /\ calls[2].name = calls[1].name

\* C2 holds of the storage-account path: the Get is issued on both outcomes.
C2_StorageGetFollowsCreate ==
    (CreatePathReturned /\ rtype = "storage") =>
        /\ Len(calls) >= 2
        /\ calls[2].op = "Get"
        /\ calls[2].rg = calls[1].rg
        /\ calls[2].name = calls[1].name

\* C3: a storage-account Create returned an error after the Get recovered the
\* identifier; a later Delete on the document that still holds that identifier
\* parses it and issues exactly one remote Delete, against the resource group
\* and account name that Create used.
C3_DeleteAfterFailedCreate ==
    (rtype = "storage" /\ op = "Delete" /\ pc = "done" /\ lastCreate # NoCreate) =>
        /\ id = lastCreate.id
        /\ ret.what # "parse"
        /\ Len(calls) = 1
        /\ calls[1].op = "Delete"
        /\ calls[1].rg = lastCreate.rg
        /\ calls[1].name = lastCreate.name

C3_Witness ==
    /\ rtype = "storage" /\ op = "Delete" /\ pc = "done"
    /\ lastCreate # NoCreate
    /\ calls # <<>>
    /\ calls[1].out = "ok"
    /\ ret = RetOk

\* a create path on a document without identifier has returned after its remote
\* create call succeeded and the Get after it brought no identifier
CreatedNotDiscoverable ==
    /\ op = "Create" /\ pc = "done"
    /\ Len(calls) >= 2
    /\ calls[1].op = "Create" /\ calls[1].out = "ok"
    /\ calls[2].op = "Get" /\ calls[2].out # "ok"

\* C4: in every create path, when the remote create call succeeded and the
\* follow-up Get yields no identifier, the operation returns an error that is
\* neither the create error nor a polling error, issues no poll and no Read,
\* leaves the identifier unset and does not fault.
C4_CreatedNotDiscoverableIsError ==
    CreatedNotDiscoverable =>
        /\ ret.status = "error"
        /\ ret.what \in {"noid", "get"}
        /\ id = NoId
        /\ Len(calls) = 2

\* C4 holds of the storage-account path
C4_StorageCreatedNotDiscoverable ==
    (CreatedNotDiscoverable /\ rtype = "storage") =>
        /\ ret.status = "error"
        /\ ret.what \in {"noid", "get"}
        /\ id = NoId
        /\ Len(calls) = 2

\* C5: for both resource kinds, a Read whose Get reports not-found sets the
\* identifier to empty, returns no error and issues no remote call after that
\* Get (no ListKeys).
C5_ReadNotFoundClearsId ==
    (op = "Read" /\ pc = "done" /\ calls # <<>> /\ calls[1].out = "notfound") =>
        /\ calls[1].op = "Get"
        /\ Len(calls) = 1
        /\ id = NoId
        /\ ret = RetOk

C5_Witness ==
    /\ rtype = "storage" /\ op = "Read" /\ pc = "done"
    /\ calls # <<>> /\ calls[1].out = "notfound"
    /\ id = NoId
    /\ ret = RetOk

\* C6: Delete is idempotent for both resource kinds: a Delete whose remote call
\* removes the resource returns success, and a second Delete on the same
\* identifier, to which the remote answers not-found, returns success too.
C6_DeleteIdempotent ==
    (op = "Delete" /\ pc = "done" /\ calls # <<>>) =>
        /\ calls[1].out = "ok" => ret = RetOk
        /\ (calls[1].out = "notfound" /\ lastDelete = id) => ret = RetOk

\* C6 holds of the snapshot
C6_SnapshotDeleteIdempotent ==
    (rtype = "snapshot" /\ op = "Delete" /\ pc = "done" /\ calls # <<>>) =>
        /\ calls[1].out = "ok" => ret = RetOk
        /\ (calls[1].out = "notfound" /\ lastDelete = id) => ret = RetOk

\* the field groups of Update in the order of its blocks, each named as in the
\* request of its remote call
GroupOrder ==
    <<"account_replication_type", "access_tier", "tags", "encryption",
      "custom_domain", "enable_https_traffic_only">>

GroupChanged(g) ==
    IF g = "encryption"
    THEN {"enable_blob_encryption", "enable_file_encryption"} \cap changed # {}
    ELSE g \in changed

ExpectedGroups == SelectSeq(GroupOrder, GroupChanged)
IssuedGroups == [i \in DOMAIN calls |-> calls[i].req]

StorageUpdateRan ==
    /\ rtype = "storage" /\ op = "Update"
    /\ ~(pc = "done" /\ ret.what \in {"parse", "validation"})

UpdateCallsInOrder ==
    /\ \A i \in DOMAIN calls : calls[i].op = "Update"
    /\ Len(calls) <= Len(ExpectedGroups)
    /\ IssuedGroups = SubSeq(ExpectedGroups, 1, Len(calls))
    /\ \A i \in 1..(Len(calls) - 1) : calls[i].out = "ok"

UpdateReturnedAsClaimed ==
    \/ /\ ret = RetOk
       /\ Len(calls) = Len(ExpectedGroups)
       /\ \A i \in DOMAIN calls : calls[i].out = "ok"
    \/ /\ calls # <<>>
       /\ calls[Len(calls)].out = "error"
       /\ ret = Ret("error", ExpectedGroups[Len(calls)])

\* C7: storage-account Update processes the field groups in the fixed order
\* replication-type, access-tier, tags, encryption, custom-domain, HTTPS-only:
\* for N changed groups it issues exactly N remote Update calls, one per group in
\* that order; when the k-th call fails, calls 1..k-1 were issued and succeeded,
\* no call after the k-th is issued, no other remote call is made, and Update
\* returns an error that names the failed group.
C7_UpdateOneCallPerGroupInOrder ==
    StorageUpdateRan =>
        /\ UpdateCallsInOrder
        /\ pc = "done" => UpdateReturnedAsClaimed

\* C7 holds of every Update that does not fault while it builds a request
C7_UpdateOrderUnlessFault ==
    (StorageUpdateRan /\ ret.status # "panic") =>
        /\ UpdateCallsInOrder
        /\ pc = "done" => UpdateReturnedAsClaimed

PollCalls == Cardinality({i \in DOMAIN calls : calls[i].line = 627})

AllPending(seq) == \A i \in DOMAIN seq : seq[i] \in Pending

\* C8: the poller after Create stops at the first observed state that is not
\* pending: every observed state but the last is pending and one Get is issued
\* per observed state; on [Creating, Creating, Succeeded] it has succeeded after
\* exactly 3 polls, on [Creating, Failed] Create returns the unexpected-state
\* error after exactly 2 polls, and after Succeeded, Failed or Canceled was
\* observed the poller is no longer polling.
C8_PollerStopsAtFirstNonPending ==
    StorageCreate =>
        /\ AllPending(SubSeq(observed, 1, Len(observed) - 1))
        /\ PollCalls \in {Len(observed), Len(observed) + 1}
        /\ PollCalls = Len(observed) + 1 => ret = Ret("error", "wait_refresh")
        /\ observed = <<"Creating", "Creating", "Succeeded">> =>
              /\ PollCalls = 3
              /\ pc \in {"c_read", "done"}
              /\ ret.what \notin {"wait_state", "wait_timeout", "wait_refresh"}
        /\ observed = <<"Creating", "Failed">> =>
              /\ PollCalls = 2
              /\ pc = "done"
              /\ ret = Ret("error", "wait_state")
        /\ (observed # <<>> /\ observed[Len(observed)] \in {"Succeeded", "Failed", "Canceled"}) =>
              pc # "c_wait"

C8_Witness ==
    /\ StorageCreate
    /\ observed = <<"Creating", "Creating", "Succeeded">>
    /\ pc = "done"
    /\ ret = RetOk

\* C9: the poller after Create terminates: it never observes more states than
\* the deadline allows, a poller that is waiting can always take its next step,
\* and when every poll up to the deadline returned a pending state the wait ends
\* with the timeout error, which Create returns; Create goes on to Read only
\* after the target state was observed.
C9_PollerTimesOut ==
    StorageCreate =>
        /\ Len(observed) <= TimeoutTicks
        /\ pc = "c_wait" => (AllPending(observed) /\ ENABLED StorageAccountCreateWait)
        /\ (pc = "done" /\ AllPending(observed) /\ Len(observed) = TimeoutTicks) =>
              ret = Ret("error", "wait_timeout")
        /\ ret = Ret("error", "wait_timeout") =>
              /\ pc = "done"
              /\ AllPending(observed)
              /\ PollCalls = TimeoutTicks
        /\ (pc = "c_read" \/ ret = RetOk) =>
              (observed # <<>> /\ observed[Len(observed)] \in Target)

C9_Witness ==
    /\ StorageCreate
    /\ pc = "done"
    /\ ret = Ret("error", "wait_timeout")
    /\ Len(observed) = TimeoutTicks

\* the document asks for a BlobStorage account with ZRS replication, in any
\* letter casing the schema accepts
BlobStorageWithZRS ==
    /\ ValidAccountKind(cfg.account_kind)
    /\ ValidReplicationType(cfg.account_replication_type)
    /\ ToLower(cfg.account_kind) = ToLower(S_BlobStorage)
    /\ ToLower(cfg.account_replication_type) = ToLower(S_ZRS)

\* C10: for every schema-valid document whose kind is BlobStorage and whose
\* replication type is ZRS in any accepted casing, storage-account Create and
\* Update (on a well-formed identifier) return the validation error before any
\* remote call, and leave the identifier and the partial-apply bookkeeping
\* untouched.
C10_BlobStorageZRSRejected ==
    (rtype = "storage" /\ op \in {"Create", "Update"} /\ BlobStorageWithZRS
        /\ (op = "Update" => ParseOk(id))) =>
        /\ calls = <<>>
        /\ pc = "done"
        /\ ret = Ret("error", "validation")
        /\ partial = NoPartial
        /\ op = "Create" => id = NoId

\* C10 holds of the one spelling the code compares with, "Standard_ZRS"
C10_StandardZRSExactCaseRejected ==
    (rtype = "storage" /\ op \in {"Create", "Update"}
        /\ cfg.account_kind = S_BlobStorage
        /\ cfg.account_tier = S_Standard
        /\ cfg.account_replication_type = S_ZRS
        /\ (op = "Update" => ParseOk(id))) =>
        /\ calls = <<>>
        /\ pc = "done"
        /\ ret = Ret("error", "validation")
        /\ partial = NoPartial
        /\ op = "Create" => id = NoId

----------------------------------------------------------------------------
(* Read: the reflected secondary endpoints and secrets *)

\* a storage-account Read (alone or at the end of Create) has returned nil after
\* reflecting a representation into the document
StorageReadReflected ==
    /\ rtype = "storage" /\ pc = "done" /\ op \in {"Read", "Create"}
    /\ seen.got /\ ret = RetOk

\* C11: after a storage-account Read that succeeds on a representation that has
\* no secondary endpoint for a service (the whole secondary-endpoints group may
\* be missing), the document's secondary endpoint of that service, and for the
\* blob service the secondary blob connection string, are empty strings: no
\* value of an earlier Read survives.
C11_AbsentSecondaryReflectedEmpty ==
    StorageReadReflected =>
        /\ ~(seen.secondary.present /\ seen.secondary.blob) =>
               /\ doc.secondary_blob_endpoint = ""
               /\ doc.secondary_blob_connection_string = NoConnectionString
        /\ ~(seen.secondary.present /\ seen.secondary.queue) =>
               doc.secondary_queue_endpoint = ""
        /\ ~(seen.secondary.present /\ seen.secondary.table) =>
               doc.secondary_table_endpoint = ""

\* C11 holds of a representation whose secondary-endpoints group is there: each
\* endpoint the group lacks is reflected as the empty string
C11_MissingEndpointOfPresentGroupEmpty ==
    (StorageReadReflected /\ seen.secondary.present) =>
        /\ ~seen.secondary.blob =>
               /\ doc.secondary_blob_endpoint = ""
               /\ doc.secondary_blob_connection_string = NoConnectionString
        /\ ~seen.secondary.queue => doc.secondary_queue_endpoint = ""
        /\ ~seen.secondary.table => doc.secondary_table_endpoint = ""

\* a storage-account Read was answered by GetProperties and by ListKeys
StorageReadAnswered ==
    rtype = "storage" /\ pc = "done" /\ op \in {"Read", "Create"} /\ seen.got

\* C12: a storage-account Read that ListKeys answers with fewer than two secrets
\* completes without a fault and leaves the secondary access key empty; so does
\* the secondary access key of a Read on a representation without a secondary
\* blob endpoint.
C12_ReadSafeOnShortSecretList ==
    StorageReadAnswered =>
        /\ ret.status # "panic"
        /\ seen.keys < 2 => doc.secondary_access_key = ""
        /\ ~(seen.secondary.present /\ seen.secondary.blob) =>
               /\ doc.secondary_access_key = ""
               /\ doc.secondary_blob_connection_string = NoConnectionString

\* C12 holds of the Reads that ListKeys answers with two secrets or more: they
\* return nil
C12_ReadCompletesOnTwoSecrets ==
    (StorageReadAnswered /\ seen.keys >= 2) => ret = RetOk

----------------------------------------------------------------------------
(* The pure functions: name validation, and the SKU name composed by Create and
   split by Read.  They are applied to documents drawn from wider sets than the
   lifecycle above carries. *)

\* the longest name drawn
MaxNameLen == 82

Digits == <<"0","1","2","3","4","5","6","7","8","9">>

IsLower(ch) == \E i \in DOMAIN Lower : Lower[i] = ch
IsUpper(ch) == \E i \in DOMAIN Upper : Upper[i] = ch
IsDigit(ch) == \E i \in DOMAIN Digits : Digits[i] = ch

\* regexp `\A([a-z0-9]{3,24})\z`
MatchStorageAccountName(input) ==
    /\ Len(input) >= 3 /\ Len(input) <= 24
    /\ \A i \in DOMAIN input : IsLower(input[i]) \/ IsDigit(input[i])

\* regexp "^[A-Za-z0-9_]+$"
MatchSnapshotName(input) ==
    /\ Len(input) >= 1
    /\ \A i \in DOMAIN input :
           IsLower(input[i]) \/ IsUpper(input[i]) \/ IsDigit(input[i]) \/ input[i] = "_"

\* validateArmStorageAccountName that lets a name of 25 characters pass
validateArmStorageAccountName_UpTo25(input) ==
    IF /\ Len(input) >= 3 /\ Len(input) <= 25
       /\ \A i \in DOMAIN input : IsLower(input[i]) \/ IsDigit(input[i])
    THEN <<>> ELSE <<"name">>

\* the errors validateArmStorageAccountName returns
validateArmStorageAccountName(input) ==
    IF ~MatchStorageAccountName(input) THEN <<"name">> ELSE <<>>

\* the errors validateSnapshotName returns
validateSnapshotName(value) ==
    (IF ~MatchSnapshotName(value) THEN <<"characters">> ELSE <<>>)
    \o (IF Len(value) > 80 THEN <<"length">> ELSE <<>>)

\* what the schema makes of a validator's errors
NameVerdict(es) == IF es = <<>> THEN RetOk ELSE Ret("error", es[1])

S_ab == <<"a","b">>
S_abc123 == <<"a","b","c","1","2","3">>
S_standard == <<"s","t","a","n","d","a","r","d">>

\* the names drawn: n - 1 times one character and then another, for every length
\* up to MaxNameLen, and the two names of the scenario
NameFill == {"a", "A", "7"}
NameLast == {"z", "Z", "0", "_", "-", ".", " ", "\n"}
NameOf(n, fill, last) == [i \in 1..n |-> IF i < n THEN fill ELSE last]
NameInputs ==
    {NameOf(n, f, l) : n \in 0..MaxNameLen, f \in NameFill, l \in NameLast}
    \cup {NameOf(n, l, f) : n \in 0..MaxNameLen, f \in NameFill, l \in NameLast}
    \cup {S_ab, S_abc123}

\* the documents drawn: every name with one sku, and every sku, kind and access
\* tier the schema accepts with one name
FunctionKindInputs ==
    {v \in {S_Storage, S_BlobStorage, S_blobstorage} : ValidAccountKind(v)}
FunctionTierInputs ==
    {v \in {S_Standard, S_Premium, S_standard} : ValidAccountTier(v)}
FunctionReplicationInputs ==
    {v \in {S_LRS, S_ZRS, S_GRS, S_RAGRS, S_zrs} : ValidReplicationType(v)}
FunctionAccessTierInputs ==
    {S_Empty} \cup {v \in {S_Hot, S_Cool} : ValidAccessTier(v)}

FunctionStorageConfigs ==
    [name : NameInputs, resource_group_name : Groups,
     account_kind : {S_Storage}, account_tier : {S_Standard},
     account_replication_type : {S_LRS},
     access_tier : {S_Empty}, custom_domain : {<<>>}]
    \cup
    [name : {S_abc123}, resource_group_name : Groups,
     account_kind : FunctionKindInputs, account_tier : FunctionTierInputs,
     account_replication_type : FunctionReplicationInputs,
     access_tier : FunctionAccessTierInputs, custom_domain : {<<>>}]

FunctionSnapshotConfigs ==
    [name : NameInputs, resource_group_name : Groups,
     account_kind : {S_Empty}, account_tier : {S_Empty},
     account_replication_type : {S_Empty},
     access_tier : {S_Empty}, custom_domain : {<<>>}]

InitFunctions ==
    /\ rtype \in {"storage", "snapshot"}
    /\ cfg \in (IF rtype = "storage" THEN FunctionStorageConfigs
                ELSE FunctionSnapshotConfigs)
    /\ id = NoId
    /\ op = "none"
    /\ pc = "idle"
    /\ calls = <<>>
    /\ ret = NoRet
    /\ createErr = FALSE
    /\ readRes = NoRead
    /\ observed = <<>>
    /\ changed = {}
    /\ partial = NoPartial
    /\ lastCreate = NoCreate
    /\ lastDelete = NoId
    /\ doc = NoDoc
    /\ seen = NoSeen

\* the schema's ValidateFunc of "name"
ValidateName ==
    /\ pc = "idle"
    /\ op' = "Validate"
    /\ ret' = NameVerdict(IF rtype = "storage"
                          THEN validateArmStorageAccountName(cfg.name)
                          ELSE validateSnapshotName(cfg.name))
    /\ pc' = "done"
    /\ UNCHANGED <<rtype, cfg, id, calls, createErr, readRes, observed, changed,
                   partial, lastCreate, lastDelete, doc, seen>>

\* lines 486-490 on the account Create has asked for: the remote reports the sku
\* name of the create request, and Read reflects it
StorageAccountReflectCreated ==
    /\ pc = "c_get" /\ ~createErr
    /\ LET rep == [sku |-> RemoteSku(calls[1].req.sku), secondary |-> NoEndpoints]
       IN  /\ doc' = StorageAccountReflect(doc, rep, MaxKeys, cfg.name)
           /\ seen' = [got |-> TRUE, secondary |-> rep.secondary, keys |-> MaxKeys]
    /\ ret' = RetOk
    /\ pc' = "done"
    /\ UNCHANGED <<rtype, cfg, id, op, calls, createErr, readRes, observed,
                   changed, partial, lastCreate, lastDelete>>

NextFunctions ==
    \/ ValidateName
    \/ resourceArmStorageAccountCreate
    \/ StorageAccountReflectCreated

SpecFunctions == InitFunctions /\ [][NextFunctions]_vars

LowercaseLettersAndDigits ==
    {Lower[i] : i \in DOMAIN Lower} \cup {Digits[i] : i \in DOMAIN Digits}
LettersDigitsAndUnderscore ==
    LowercaseLettersAndDigits \cup {Upper[i] : i \in DOMAIN Upper} \cup {"_"}

\* C14: a storage-account name is accepted exactly when it consists of lowercase
\* letters and digits only and is 3 to 24 characters long ("ab" is rejected,
\* "abc123" is accepted); a snapshot name is accepted exactly when it is a
\* non-empty string of letters, digits and underscores of at most 80 characters.
C14_NameValidation ==
    (op = "Validate" /\ pc = "done") =>
        /\ rtype = "storage" =>
               /\ (ret = RetOk) <=>
                      /\ Len(cfg.name) >= 3 /\ Len(cfg.name) <= 24
                      /\ \A i \in DOMAIN cfg.name :
                             cfg.name[i] \in LowercaseLettersAndDigits
               /\ cfg.name = <<"a","b">> => ret # RetOk
               /\ cfg.name = <<"a","b","c","1","2","3">> => ret = RetOk
        /\ rtype = "snapshot" =>
               ((ret = RetOk) <=>
                      /\ Len(cfg.name) >= 1 /\ Len(cfg.name) <= 80
                      /\ \A i \in DOMAIN cfg.name :
                             cfg.name[i] \in LettersDigitsAndUnderscore)

\* C14 is reached: a snapshot name of 80 characters has been accepted
C14_Witness ==
    /\ rtype = "snapshot" /\ op = "Validate" /\ pc = "done"
    /\ Len(cfg.name) = 80 /\ ret = RetOk

----------------------------------------------------------------------------
(* Update: the fields marked as persisted *)

GroupFields(g) ==
    IF g = "encryption"
    THEN {"enable_blob_encryption", "enable_file_encryption"}
    ELSE {g}

\* the changed fields of the groups whose remote Update call has succeeded
SucceededFields ==
    UNION {GroupFields(calls[i].req) \cap changed :
               i \in {j \in DOMAIN calls : calls[j].out = "ok"}}

EncryptionAndCustomDomain ==
    {"enable_blob_encryption", "enable_file_encryption", "custom_domain"}

\* C15: in storage-account Update a field is marked as persisted only after the
\* remote Update call of its group has succeeded; when Update returns an error,
\* the marked fields are exactly the changed fields of the groups whose call
\* succeeded.
C15_MarkedExactlySucceededGroups ==
    (rtype = "storage" /\ op = "Update") =>
        /\ partial.keys \subseteq SucceededFields
        /\ (pc = "done" /\ ret.status = "error") => partial.keys = SucceededFields

\* C15 holds of the fields outside the encryption and the custom-domain group
C15_MarkedExactlySucceededOtherGroups ==
    (rtype = "storage" /\ op = "Update") =>
        /\ partial.keys \ EncryptionAndCustomDomain \subseteq SucceededFields
        /\ (pc = "done" /\ ret.status = "error") =>
               partial.keys \ EncryptionAndCustomDomain
                   = SucceededFields \ EncryptionAndCustomDomain

----------------------------------------------------------------------------
(* Read and Delete: failures other than not-found *)

\* C16: for both resource kinds, a Read or a Delete whose remote call fails with
\* anything other than not-found returns an error and leaves the identifier as
\* it was before the operation.
C16_FailureLeavesIdentifier ==
    [][((\/ pc = "idle" /\ op' \in {"Read", "Delete"}
         \/ pc \in {"c_read", "s_read"})
        /\ calls' # calls
        /\ calls'[Len(calls')].out = "error")
       => (pc' = "done" /\ ret'.status = "error" /\ id' = id)]_vars

\* C16 is reached: a snapshot Read whose Get failed has returned the error
C16_Witness ==
    /\ rtype = "snapshot" /\ op = "Read" /\ pc = "done"
    /\ calls # <<>> /\ calls[1].out = "error"
    /\ ret.status = "error" /\ id # NoId

----------------------------------------------------------------------------
(* Create: identifier, then polling, then Read *)

CallsAt(line) == {i \in DOMAIN calls : calls[i].line = line}

PollerSucceeded == observed # <<>> /\ observed[Len(observed)] = "Succeeded"

\* C17: in storage-account Create the poller starts only after the Get after
\* Create has answered with an identifier and the identifier is recorded; the
\* Read that populates the document is invoked only after the poller has
\* observed Succeeded; Create returns success only when the poller reached
\* Succeeded and that Read returned no error.
C17_CreateIdThenPollThenRead ==
    StorageCreate =>
        /\ (pc = "c_wait" \/ CallsAt(627) # {}) =>
               /\ ~createErr
               /\ readRes.id # NoId
               /\ CallsAt(274) = {2}
               /\ \A i \in CallsAt(627) : i > 2
        /\ pc \in {"c_wait", "c_read"} => (id # NoId /\ id = readRes.id)
        /\ (pc = "c_read" \/ CallsAt(466) # {}) =>
               /\ PollerSucceeded
               /\ \A i \in CallsAt(466), j \in CallsAt(627) : i > j
        /\ (pc = "done" /\ ret = RetOk) =>
               /\ PollerSucceeded
               /\ CallsAt(466) # {}

\* C17 is reached: Create has returned success after the poller saw Creating and
\* then Succeeded
C17_Witness ==
    /\ StorageCreate /\ pc = "done" /\ ret = RetOk /\ id # NoId
    /\ observed = <<"Creating", "Succeeded">>
    /\ CallsAt(466) # {}

----------------------------------------------------------------------------
(* The identifier over the life of the instance *)

\* this step is a Read that Get answers with not-found
ReadFoundAbsent ==
    /\ calls' # calls
    /\ calls'[Len(calls')].line \in {466, 146}
    /\ calls'[Len(calls')].out = "notfound"

\* this step is the Get that follows the remote create call of a create path
GetAfterCreate == pc \in {"c_get", "s_get"}

\* C18: over any sequence of lifecycle operations the identifier is absent
\* before the first successful create (an import aside); once it is non-empty no
\* operation changes it to a different non-empty value, and the only change made
\* to it is the clearing by a Read that finds the resource absent.
C18_IdentifierSetBySuccessfulCreateOnly ==
    [][id' # id =>
         \/ id = NoId /\ pc = "idle" /\ op' = op
         \/ id = NoId /\ GetAfterCreate /\ ~createErr
         \/ id # NoId /\ id' = NoId /\ ReadFoundAbsent]_vars

\* C18 as the code has it: the identifier is absent until an import or the Get
\* that follows the remote create call records the identifier that Get reports,
\* which storage-account Create does also when the create call has failed; a
\* storage-account identifier is then never changed to another non-empty value;
\* a non-empty identifier is cleared only by a Read that finds the resource
\* absent, and is written again only by the snapshot's CreateOrUpdate run as
\* Update, with the identifier its Get reports.
C18_IdentifierChanges ==
    [][id' # id =>
         \/ id = NoId /\ pc = "idle" /\ op' = op
         \/ id = NoId /\ GetAfterCreate /\ id' = readRes'.id
         \/ id # NoId /\ id' = NoId /\ ReadFoundAbsent
         \/ /\ id # NoId /\ rtype = "snapshot" /\ op = "Update" /\ pc = "s_get"
            /\ id' = readRes'.id]_vars

\* C18 is reached: a Read has cleared the identifier that a failed storage-account
\* Create had recorded
C18_Witness ==
    /\ rtype = "storage" /\ op = "Read" /\ pc = "done"
    /\ lastCreate # NoCreate /\ id = NoId /\ ret = RetOk

----------------------------------------------------------------------------
(* Read, Update, Delete: how the remote resource is addressed *)

\* the remote calls this step issues
NewCalls == {i \in DOMAIN calls' : i > Len(calls)}

\* this step issues its remote calls, if any, on the coordinates parsed from the
\* stored identifier, and returns the parse error without a call when the stored
\* identifier is malformed
StepAddressesByIdentifier ==
    /\ \A i \in NewCalls :
           /\ ParseOk(id)
           /\ calls'[i].rg = IdResourceGroup(id)
           /\ calls'[i].name = IdName(rtype, id)
    /\ (pc = "idle" /\ ~ParseOk(id)) =>
           (pc' = "done" /\ ret' = Ret("error", "parse") /\ calls' = <<>>)

\* the steps of the snapshot's CreateOrUpdate, run as Update, up to its Get
SnapshotUpdateStep ==
    rtype = "snapshot" /\ op' = "Update" /\ pc \in {"idle", "s_get"}

\* C19: for both resource kinds every remote call issued by Read, Update and
\* Delete addresses the resource by the coordinates parsed from the stored
\* identifier, never by the name and resource-group fields of the document, and
\* a malformed identifier makes the operation return a parse error before any
\* remote call.
C19_AddressedByStoredIdentifier ==
    [][op' \in {"Read", "Update", "Delete"} => StepAddressesByIdentifier]_vars

\* C19 holds of every Read, Update and Delete but the snapshot's Update
C19_AddressedByIdentifierButSnapshotUpdate ==
    [][(op' \in {"Read", "Update", "Delete"} /\ ~SnapshotUpdateStep)
           => StepAddressesByIdentifier]_vars

----------------------------------------------------------------------------
(* Create: the access tier of the request *)

----------------------------------------------------------------------------
(* Create: failures after the identifier was recorded *)

\* storage-account Create has returned after the Get after Create had answered
\* with an identifier and the remote Create had reported no error
CreateReturnedAfterIdRecorded ==
    StorageCreate /\ pc = "done" /\ ~createErr /\ readRes.id # NoId

\* the poller ended without Succeeded: its deadline passed, it observed a state
\* that is neither pending nor the target, or a Get of a poll failed
PollingFailed == ~PollerSucceeded

\* the Read at the end of Create was answered with an error by GetProperties or
\* by ListKeys
FinalReadFailed ==
    /\ PollerSucceeded
    /\ calls[Len(calls)].line \in {466, 475}
    /\ calls[Len(calls)].out = "error"

\* C21: in storage-account Create, once the Get after Create has answered with
\* an identifier and the remote Create reported no error, every failure of the
\* poller (deadline, unexpected state, failed Get of a poll) and every error of
\* the final Read makes Create return an error with the recorded identifier
\* still set.
C21_LateFailureKeepsIdentifier ==
    CreateReturnedAfterIdRecorded =>
        /\ (PollingFailed \/ FinalReadFailed) => ret.status = "error"
        /\ PollingFailed => ret.what \in {"wait_timeout", "wait_state", "wait_refresh"}
        /\ ret.status = "error" => (id # NoId /\ id = readRes.id)

\* C21 is reached: the poller observed Failed and Create returned the error with
\* the identifier set
C21_Witness ==
    /\ CreateReturnedAfterIdRecorded
    /\ observed # <<>> /\ observed[Len(observed)] = "Failed"
    /\ ret = Ret("error", "wait_state") /\ id # NoId

====
